---- MODULE Spec2Model ----
(***************************************************************************)
(* Upload-coupled CRUD handlers of the school-site API.                    *)
(*                                                                         *)
(* Two server entry points exist: src/index.js stores uploads on the local *)
(* disk (multer.diskStorage), src/unnamed/part_001 stores them in a        *)
(* Supabase bucket (multer.memoryStorage + uploadToSupabase).  A behaviour *)
(* of the model runs one entry point (ep) against one entity table (ent);  *)
(* every request handler is a process whose steps are the handler's awaits.*)
(***************************************************************************)
EXTENDS Integers, FiniteSets, Sequences, TLC

\* ------------------------------------------------------------------ bounds
MaxReq == 3      \* requests issued in one behaviour
MaxTime == 2     \* values Date.now() takes
MaxId == 2       \* row ids the table hands out
MaxTwin == 2     \* requests of a run that is repeated side by side

\* ------------------------------------------------------------ value spaces
EntryPoints == {"local", "remote"}
Entities == {"news", "hero", "extracurricular", "kalender", "alumni", "galeri",
             "sarana", "headmaster", "sejarah", "struktur", "staff"}
Ops == {"create", "update", "delete"}
Slots == {1, 2}
Ids == 1..MaxId
NaNId == 0                      \* parseInt(id) of a non-numeric :id
FileNames == {"photo.png"}      \* file.originalname; keys differ by timestamp
EscapedNames == {"my photo.png"}  \* an originalname that encodeURI escapes
AllNames == FileNames \cup EscapedNames
NoFile == "-"                   \* the request carries no upload
Keys == (1..MaxTime) \X AllNames
NoKey == <<0, "">>
UndefKey == <<0, "undefined">>  \* req.file.filename under memoryStorage
Absent == 0                     \* no blob under a key

Null == [kind |-> "null", key |-> NoKey]
NoRow == [kind |-> "norow", key |-> NoKey]
SeedRef == [kind |-> "seed", key |-> NoKey]

Truthy(ref) == ref.kind # "null"

\* `${Date.now()}-${file.originalname}`
UniqueFilename(t, name) == <<t, name>>

\* `/uploads/${filename}`
getLocalFileUrl(filename) == [kind |-> "uploads", key |-> filename]

\* path.join(__dirname, filePath.replace(/^\//, '')): the file under uploads/
\* when the reference is /uploads/<name>, a path outside uploads/ otherwise
LocalFullPath(filePath) ==
    IF filePath.kind = "uploads" THEN filePath.key ELSE NoKey

\* encodeURI leaves letters, digits, "-", "." alone and escapes a space as %20
encodeURI(name) == IF name = "my photo.png" THEN "my%20photo.png" ELSE name
decodeURI(name) == IF name = "my%20photo.png" THEN "my photo.png" ELSE name

\* supabase.storage.from(BUCKET_NAME).getPublicUrl(uniqueFilename).data.publicUrl:
\* the client returns encodeURI(`${url}/object/public/${bucket}/${path}`)
getPublicUrl(uniqueFilename) ==
    [kind |-> "public", key |-> <<uniqueFilename[1], encodeURI(uniqueFilename[2])>>]

\* fileUrl.replace(`${SUPABASE_URL}/storage/v1/object/public/${BUCKET_NAME}/`, "")
SupabaseFilePath(fileUrl) ==
    IF fileUrl.kind = "public" THEN fileUrl.key ELSE NoKey

\* Authorization: Bearer <token>.  A token is signed with SECRET_KEY ("good")
\* or not ("bad") and carries its expiry time; NoToken is the absent header
TokenLife == 1                  \* jwt.sign(..., {expiresIn: "1h"})
NoToken == [sig |-> "none", exp |-> 0]
Tokens == {NoToken} \cup [sig : {"good", "bad"}, exp : 1..(MaxTime + TokenLife)]

\* authenticateToken: 401 without a token; jwt.verify throws on a bad
\* signature and on an expired token (403); then `decoded.exp * 1000 <
\* Date.now()` answers 403; otherwise req.user = decoded and next()
authenticateTokenIgnoresExpiry(token, t) ==
    IF token = NoToken THEN [status |-> 401, next |-> FALSE, user |-> NoToken]
    ELSE IF token.sig # "good"
         THEN [status |-> 403, next |-> FALSE, user |-> NoToken]
    ELSE [status |-> 0, next |-> TRUE, user |-> token]

authenticateToken(token, t) ==
    IF token = NoToken THEN [status |-> 401, next |-> FALSE, user |-> NoToken]
    ELSE IF token.sig # "good" \/ t >= token.exp
         THEN [status |-> 403, next |-> FALSE, user |-> NoToken]
    ELSE IF token.exp < t
         THEN [status |-> 403, next |-> FALSE, user |-> NoToken]
    ELSE [status |-> 0, next |-> TRUE, user |-> token]

\* ------------------------------------------------------------ route tables
\* variant: every content route is registered behind authenticateToken
GuardedEverywhere(p, e, op) == TRUE

\* the content routes are registered as app.post/put/delete(path,
\* upload.single(...), handler): authenticateToken is not in their chain
Guarded(p, e, op) == FALSE

StdEntities == {"news", "hero", "extracurricular", "alumni", "galeri", "sarana"}
SeededEntities == {"hero", "kalender", "headmaster", "sejarah"}
NullableImage(e) == e \in {"news", "extracurricular", "alumni", "sarana", "sejarah"}

HasRoute(p, e, op) ==
    CASE op = "update" -> TRUE
      [] op = "create" ->
            IF p = "local"
            THEN e \in {"news", "extracurricular", "alumni", "galeri", "sarana",
                        "sejarah", "struktur", "staff"}
            ELSE e \in {"news", "extracurricular", "alumni", "galeri", "sarana",
                        "struktur", "staff"}
      [] op = "delete" ->
            IF p = "local"
            THEN e \in {"news", "extracurricular", "alumni", "galeri", "sarana",
                        "sejarah", "struktur", "staff"}
            ELSE e \in {"news", "extracurricular", "alumni", "galeri", "sarana",
                        "struktur", "staff"}

\* upload.single(...) is mounted on the route
HasMulter(op) == op \in {"create", "update"}

\* how the handler obtains the new reference when req.file is set
Uploader(p, e) ==
    IF p = "local"
    THEN IF e \in {"struktur", "staff"} THEN "undefinedFn" ELSE "disk"
    ELSE IF e \in StdEntities THEN "supabase" ELSE "filename"

\* variant: no handler removes a blob
DeleterNone(p, e) == "none"

\* how the handler removes the blob of the existing reference
Deleter(p, e) ==
    IF p = "local"
    THEN IF e \in {"struktur", "staff"} THEN "undefinedFn" ELSE "unlink"
    ELSE IF e \in StdEntities THEN "supabase" ELSE "none"

\* the handler reads the row (findUnique) before it writes
HasLookup(p, e) == p = "local" \/ e \in StdEntities

\* variant: no handler wraps its steps in try/catch
InTryNowhere(p, e, op, step) == FALSE

\* the step runs inside the handler's try/catch
InTry(p, e, op, step) ==
    IF p = "local"
    THEN /\ e # "sejarah"
         /\ ~(e \in {"struktur", "staff"} /\ op = "create" /\ step = "upload")
    ELSE ~(e \in {"kalender", "sejarah", "staff"} /\ op = "update")

\* struktur delete: if (isNaN(parsedId)) return res.status(400)
ChecksNaN(e, op) == e = "struktur" /\ op = "delete"

\* ------------------------------------------------------------------- state
VARIABLES ep, ent, db, store, now, nextId, issued, req,
          writer,  \* per row id: serial of the request whose write it holds
          adm,     \* the admin and announcement request being served, its table
          twin     \* a finished run kept for comparison with a second run

vars == <<ep, ent, db, store, now, nextId, issued, req, writer, adm, twin>>

EmptyDb == [i \in Ids |-> NoRow]
EmptyStore == [k \in Keys |-> Absent]

IdleReq ==
    [n |-> 0, op |-> "none", id |-> NaNId, file |-> NoFile, pc |-> "idle",
     status |-> 0, existing |-> NoRow, newImage |-> Null, filename |-> NoKey,
     newId |-> NaNId, err |-> "none", delFailed |-> FALSE, log |-> <<>>,
     preDb |-> EmptyDb, preStore |-> EmptyStore,
     conc |-> FALSE,   \* another request was in flight when this one arrived
     token |-> NoToken]

\* prisma/seed.ts inserts one row for hero, kalender, headmasterMessage and
\* sejarah, each with a reference that is no upload of this server
SeedDb(e) ==
    IF e \in SeededEntities THEN [i \in Ids |-> IF i = 1 THEN SeedRef ELSE NoRow]
    ELSE EmptyDb

\* ---------------------------------------------- admin and announcements
AdminRoutes == {"secure", "login", "annPost", "annPut", "annDelete"}
Usernames == {"admin", "ghost"}
Passwords == {"secret", "wrong"}
DateInputs == {"missing", "invalid", "valid"}   \* req.body.publishedDate
NoAnn == [date |-> "norow", by |-> 0]
NoFields == [title |-> FALSE, description |-> FALSE, date |-> "missing"]
NoBody == "-"

\* the Admin table is filled outside the server (no route creates an admin):
\* it is empty or holds the admin whose password hashes "secret"
AdminTables == {{}, {[username |-> "admin", password |-> "secret"]}}

IdleAdm ==
    [pc |-> "idle", route |-> "none", n |-> 0, token |-> NoToken,
     username |-> "ghost", password |-> "wrong", fields |-> NoFields,
     id |-> NaNId, status |-> 0, body |-> NoBody, user |-> NoToken,
     invoked |-> FALSE, issuedToken |-> NoToken, called |-> FALSE,
     parsedDate |-> "null", admins |-> {},
     ann |-> [i \in Ids |-> NoAnn], annPre |-> [i \in Ids |-> NoAnn],
     annNext |-> 1, at |-> 0]

\* no finished run is kept
NoTwin == [phase |-> 1, mode |-> "none", token |-> NoToken, log |-> <<>>,
           db |-> EmptyDb, store |-> EmptyStore]

\* the state after construction: the seeded table, an empty uploads store
Booted ==
    /\ ep \in EntryPoints
    /\ ent \in Entities
    /\ db = SeedDb(ent)
    /\ store = EmptyStore
    /\ now = 1
    /\ nextId = IF ent \in SeededEntities THEN 2 ELSE 1
    /\ issued = 0
    /\ req = [s \in Slots |-> IdleReq]
    /\ writer = [i \in Ids |-> 0]

Init ==
    /\ Booted
    /\ adm = IdleAdm
    /\ twin = NoTwin

Finished(r) == r.pc \in {"idle", "done", "hung"}

\* the blob key a reference designates in the running entry point's backend
BlobKeyOf(ref) ==
    IF ep = "local" THEN LocalFullPath(ref) ELSE SupabaseFilePath(ref)

\* the blob a GET of the reference is served from: express.static and the
\* storage service both decode the request path
ServedKey(ref) == <<BlobKeyOf(ref)[1], decodeURI(BlobKeyOf(ref)[2])>>

Live(ref) == ServedKey(ref) \in Keys /\ store[ServedKey(ref)] # Absent


\* --------------------------------------------------------- handler control
\* the order in which a handler reaches its steps: multer runs before the
\* handler body; the body looks the row up, obtains the new reference,
\* removes the blob of the existing reference, and then writes the row
StageOrderDeleteFirst == <<"multer", "nan", "lookup", "unlink", "upload", "write">>

StageOrder == <<"multer", "nan", "lookup", "upload", "unlink", "write">>

\* variant: the update removes the existing blob whether or not a file came
AppliesDeleteOnEveryUpdate(p, e, r, stage) ==
    CASE stage = "multer" -> HasMulter(r.op) /\ r.file # NoFile
      [] stage = "nan"    -> ChecksNaN(e, r.op)
      [] stage = "lookup" -> HasLookup(p, e) /\ r.op \in {"update", "delete"}
      [] stage = "upload" -> r.op \in {"create", "update"} /\ r.file # NoFile
      [] stage = "unlink" ->
            /\ Deleter(p, e) # "none"
            /\ r.existing # NoRow /\ Truthy(r.existing)
            /\ r.op \in {"delete", "update"}
      [] OTHER -> TRUE

Applies(p, e, r, stage) ==
    CASE stage = "multer" -> HasMulter(r.op) /\ r.file # NoFile
      [] stage = "nan"    -> ChecksNaN(e, r.op)
      [] stage = "lookup" -> HasLookup(p, e) /\ r.op \in {"update", "delete"}
      [] stage = "upload" -> r.op \in {"create", "update"} /\ r.file # NoFile
      [] stage = "unlink" ->
            /\ Deleter(p, e) # "none"
            /\ r.existing # NoRow /\ Truthy(r.existing)
            /\ r.op = "delete" \/ (r.op = "update" /\ r.file # NoFile)
      [] OTHER -> TRUE

StageIndex(stage) ==
    IF stage = "start" THEN 0
    ELSE CHOOSE i \in 1..Len(StageOrder) : StageOrder[i] = stage

StageAfter(p, e, r, stage) ==
    LET later == {j \in (StageIndex(stage) + 1)..Len(StageOrder) :
                     Applies(p, e, r, StageOrder[j])}
        first == CHOOSE j \in later : \A k \in later : j <= k
    IN  StageOrder[first]

\* an exception thrown at `step`: the handler's catch answers 500; without a
\* try/catch the async handler's promise rejects and nothing is sent
Throw(p, e, r, step, why) ==
    IF InTry(p, e, r.op, step)
    THEN [r EXCEPT !.pc = "done", !.status = 500, !.err = why]
    ELSE [r EXCEPT !.pc = "hung", !.err = why]

Respond(r, code) == [r EXCEPT !.pc = "done", !.status = code]

Advance(p, e, r, stage) == [r EXCEPT !.pc = StageAfter(p, e, r, stage)]

SetReq(s, r) == req' = [req EXCEPT ![s] = r]

\* -------------------------------------------------------------- the clock
Tick ==
    /\ now < MaxTime
    /\ now' = now + 1
    /\ UNCHANGED <<ep, ent, db, store, nextId, issued, req, writer, adm, twin>>

\* ------------------------------------------------------- request arrival
\* the creates that have not written their row yet (each will take an id)
CreatesInFlight ==
    Cardinality({t \in Slots : ~Finished(req[t]) /\ req[t].op = "create"})

Arrive(s, op, id, file, token) ==
    /\ issued < MaxReq
    /\ Finished(req[s])
    /\ HasRoute(ep, ent, op)
    /\ op = "create" => id = NaNId /\ nextId + CreatesInFlight <= MaxId
    /\ ~HasMulter(op) => file = NoFile
    /\ issued' = issued + 1
    /\ LET c == \E t \in Slots \ {s} : ~Finished(req[t])
           r == [IdleReq EXCEPT !.n = issued + 1, !.op = op, !.id = id,
                                !.file = file, !.token = token, !.conc = c,
                                !.preDb = db, !.preStore = store]
           a == authenticateToken(token, now)
       IN  SetReq(s, IF Guarded(ep, ent, op) /\ ~a.next
                     THEN Respond(r, a.status)
                     ELSE Advance(ep, ent, r, "start"))
    /\ UNCHANGED <<ep, ent, db, store, now, nextId, writer, adm, twin>>

\* one request at a time: a request arrives when no other is in flight
StartWith(names) ==
    /\ \A t \in Slots : Finished(req[t])
    /\ \E op \in Ops, id \in Ids \cup {NaNId}, file \in names \cup {NoFile} :
          Arrive(1, op, id, file, NoToken)

Start == StartWith(FileNames)

\* ---------------------------------------------------- upload.single(...)
\* index.js: diskStorage writes uploads/<Date.now()>-<originalname> before
\* the handler runs; part_001: memoryStorage keeps a buffer, no filename
Multer(s) ==
    LET r == req[s] IN
    /\ r.pc = "multer"
    /\ IF ep = "local"
       THEN \/ LET k == UniqueFilename(now, r.file) IN
               /\ store' = [store EXCEPT ![k] = r.n]
               /\ SetReq(s, Advance(ep, ent,
                      [r EXCEPT !.filename = k, !.log = Append(@, "stored")],
                      "multer"))
            \/ /\ store' = store
               /\ SetReq(s, [r EXCEPT !.pc = "done", !.status = 500,
                                       !.err = "upload"])
       ELSE /\ store' = store
            /\ SetReq(s, Advance(ep, ent, [r EXCEPT !.filename = UndefKey],
                                 "multer"))
    /\ UNCHANGED <<ep, ent, db, now, nextId, issued, writer, adm, twin>>

\* if (isNaN(parsedId)) return res.status(400)
CheckNaN(s) ==
    LET r == req[s] IN
    /\ r.pc = "nan"
    /\ SetReq(s, IF r.id = NaNId THEN Respond(r, 400)
                 ELSE Advance(ep, ent, r, "nan"))
    /\ UNCHANGED <<ep, ent, db, store, now, nextId, issued, writer, adm, twin>>

\* const existing = await prisma.<entity>.findUnique({where: {id: parseInt(id)}})
Lookup(s) ==
    LET r == req[s] IN
    /\ r.pc = "lookup"
    /\ \/ SetReq(s, Throw(ep, ent, r, "lookup", "db"))
       \/ /\ r.id # NaNId
          /\ SetReq(s, IF db[r.id] = NoRow THEN Respond(r, 404)
                       ELSE Advance(ep, ent, [r EXCEPT !.existing = db[r.id]],
                                    "lookup"))
    /\ UNCHANGED <<ep, ent, db, store, now, nextId, issued, writer, adm, twin>>


\* ------------------------------------------------------ obtaining newImage
\* uploadToSupabase: upload(uniqueFilename, buffer) without upsert reports an
\* error when the object exists or the service fails; if (error) throw
SupabaseUploadError(k, fault) == fault \/ store[k] # Absent

Upload(s) ==
    LET r == req[s]
        u == Uploader(ep, ent)
    IN
    /\ r.pc = "upload"
    /\ CASE u \in {"disk", "filename"} ->
              \* getLocalFileUrl(req.file.filename) / `/uploads/${req.file.filename}`
              /\ store' = store
              /\ SetReq(s, Advance(ep, ent,
                     [r EXCEPT !.newImage = getLocalFileUrl(r.filename)],
                     "upload"))
         [] u = "supabase" ->
              \E fault \in BOOLEAN :
                 LET k == UniqueFilename(now, r.file) IN
                 IF SupabaseUploadError(k, fault)
                 THEN /\ store' = store
                      /\ SetReq(s, Throw(ep, ent, r, "upload", "upload"))
                 ELSE /\ store' = [store EXCEPT ![k] = r.n]
                      /\ SetReq(s, Advance(ep, ent,
                             [r EXCEPT !.newImage = getPublicUrl(k),
                                       !.log = Append(@, "stored")],
                             "upload"))
         [] OTHER ->
              \* index.js never defines uploadToSupabase: ReferenceError
              /\ store' = store
              /\ SetReq(s, Throw(ep, ent, r, "upload", "ref"))
    /\ UNCHANGED <<ep, ent, db, now, nextId, issued, writer, adm, twin>>

\* --------------------------------------------- removing the existing blob
\* fs.unlink(fullPath): ENOENT when no such file; otherwise the file is
\* removed (OK) or the file system refuses (EPERM)
UnlinkCodes(st, k) ==
    IF k \in Keys /\ st[k] # Absent THEN {"OK", "EPERM"} ELSE {"ENOENT"}

\* variant: deleteLocalFile rethrows every error, ENOENT included
deleteLocalFileRethrowsAll(code) == code # "OK"

\* variant: deleteLocalFile swallows every error
deleteLocalFileSwallows(code) == FALSE

\* deleteLocalFile: catch (error) { if (error.code !== 'ENOENT') throw ... }
deleteLocalFileThrows(code) == code \notin {"OK", "ENOENT"}

\* variant: deleteFromSupabase ignores the error it is handed
deleteFromSupabaseIgnores(error) == FALSE

\* deleteFromSupabase: if (error) throw new Error(...)
deleteFromSupabaseThrows(error) == error

\* deleteLocalFile(filePath) run on the uploads directory `st` when fs.unlink
\* ends with `code`: the directory afterwards, and whether the call threw
deleteLocalFile(st, filePath, code) ==
    LET k == LocalFullPath(filePath) IN
    [store |-> IF code = "OK" THEN [st EXCEPT ![k] = Absent] ELSE st,
     threw |-> deleteLocalFileThrows(code)]

\* deleteFromSupabase(fileUrl) run on the bucket `st` when remove([filePath])
\* reports `error`; remove of a path that holds no object reports none
deleteFromSupabase(st, fileUrl, error) ==
    LET k == SupabaseFilePath(fileUrl) IN
    [store |-> IF ~error /\ k \in Keys THEN [st EXCEPT ![k] = Absent] ELSE st,
     threw |-> deleteFromSupabaseThrows(error)]

Unlink(s) ==
    LET r == req[s]
        d == Deleter(ep, ent)
    IN
    /\ r.pc = "unlink"
    /\ CASE d = "unlink" ->
              LET k == LocalFullPath(r.existing) IN
              \E code \in UnlinkCodes(store, k) :
                 LET res == deleteLocalFile(store, r.existing, code)
                     r1 == [r EXCEPT !.delFailed = (code = "EPERM"),
                                     !.log = IF code = "OK"
                                             THEN Append(@, "deleted") ELSE @]
                 IN  /\ store' = res.store
                     /\ SetReq(s, IF res.threw
                                  THEN Throw(ep, ent, r1, "unlink", "unlink")
                                  ELSE Advance(ep, ent, r1, "unlink"))
         [] d = "supabase" ->
              LET k == SupabaseFilePath(r.existing) IN
              \E error \in BOOLEAN :
                 LET res == deleteFromSupabase(store, r.existing, error)
                     r1 == [r EXCEPT !.delFailed = error,
                                     !.log = IF ~error /\ k \in Keys
                                                  /\ store[k] # Absent
                                             THEN Append(@, "deleted") ELSE @]
                 IN  /\ store' = res.store
                     /\ SetReq(s, IF res.threw
                                  THEN Throw(ep, ent, r1, "unlink", "unlink")
                                  ELSE Advance(ep, ent, r1, "unlink"))
         [] OTHER ->
              \* index.js never defines deleteFromSupabase: ReferenceError
              /\ store' = store
              /\ SetReq(s, Throw(ep, ent, r, "unlink", "ref"))
    /\ UNCHANGED <<ep, ent, db, now, nextId, issued, writer, adm, twin>>

\* ------------------------------------------------------- writing the row
\* variant: the update writes newImage without falling back
UpdatedImageNoFallback(p, e, r, cur) == r.newImage

\* the image column of the update: `newImage || existing.image` where the
\* handler looked the row up, `image || undefined` (column left as it is)
\* where it did not
UpdatedImage(p, e, r, cur) ==
    IF Truthy(r.newImage) THEN r.newImage
    ELSE IF HasLookup(p, e) THEN r.existing ELSE cur

\* the image column of the create: req.file ? <new reference> : null
CreatedImage(r) == IF r.file # NoFile THEN r.newImage ELSE Null

\* schema.prisma: `image String` rejects null, `image String?` accepts it
SchemaAccepts(e, image) == Truthy(image) \/ NullableImage(e)

SuccessStatus(p, e, op) ==
    CASE op = "create" -> IF e = "staff" THEN 201 ELSE 200
      [] op = "update" -> 200
      [] OTHER -> IF p = "local" /\ e = "sejarah" THEN 200 ELSE 204

Write(s) ==
    LET r == req[s] IN
    /\ r.pc = "write"
    /\ \/ \* the record store fails
          /\ SetReq(s, Throw(ep, ent, r, "write", "db"))
          /\ UNCHANGED <<db, nextId, writer>>
       \/ /\ r.op = "create"
          /\ IF SchemaAccepts(ent, CreatedImage(r))
             THEN /\ db' = [db EXCEPT ![nextId] = CreatedImage(r)]
                  /\ writer' = [writer EXCEPT ![nextId] = r.n]
                  /\ nextId' = nextId + 1
                  /\ SetReq(s, Respond([r EXCEPT !.newId = nextId,
                                                 !.log = Append(@, "wrote")],
                                       SuccessStatus(ep, ent, r.op)))
             ELSE /\ SetReq(s, Throw(ep, ent, r, "write", "schema"))
                  /\ UNCHANGED <<db, nextId, writer>>
       \/ /\ r.op = "update"
          /\ r.id # NaNId
          /\ db[r.id] # NoRow
          /\ LET image == UpdatedImage(ep, ent, r, db[r.id]) IN
             IF SchemaAccepts(ent, image)
             THEN /\ db' = [db EXCEPT ![r.id] = image]
                  /\ writer' = [writer EXCEPT ![r.id] = r.n]
                  /\ SetReq(s, Respond([r EXCEPT !.log = Append(@, "wrote")],
                                       SuccessStatus(ep, ent, r.op)))
             ELSE /\ SetReq(s, Throw(ep, ent, r, "write", "schema"))
                  /\ UNCHANGED <<db, writer>>
          /\ nextId' = nextId
       \/ /\ r.op = "delete"
          /\ r.id # NaNId
          /\ db[r.id] # NoRow
          /\ db' = [db EXCEPT ![r.id] = NoRow]
          /\ UNCHANGED <<nextId, writer>>
          /\ SetReq(s, Respond([r EXCEPT !.log = Append(@, "wrote")],
                               SuccessStatus(ep, ent, r.op)))
       \/ \* prisma update/delete of a row that is not there: P2025
          /\ r.op \in {"update", "delete"}
          /\ r.id # NaNId
          /\ db[r.id] = NoRow
          /\ SetReq(s, Throw(ep, ent, r, "write", "p2025"))
          /\ UNCHANGED <<db, nextId, writer>>
    /\ UNCHANGED <<ep, ent, store, now, issued, adm, twin>>

\* ------------------------------------------------------- specification
Next ==
    \/ Tick
    \/ Start
    \/ \E s \in Slots : Multer(s)
    \/ \E s \in Slots : CheckNaN(s)
    \/ \E s \in Slots : Lookup(s)
    \/ \E s \in Slots : Upload(s)
    \/ \E s \in Slots : Unlink(s)
    \/ \E s \in Slots : Write(s)

Spec == Init /\ [][Next]_vars

\* the same handlers, serving uploads whose originalname holds a space
StartEscaped == StartWith(EscapedNames)

EscapedNext ==
    \/ Tick
    \/ StartEscaped
    \/ \E s \in Slots : Multer(s)
    \/ \E s \in Slots : CheckNaN(s)
    \/ \E s \in Slots : Lookup(s)
    \/ \E s \in Slots : Upload(s)
    \/ \E s \in Slots : Unlink(s)
    \/ \E s \in Slots : Write(s)

EscapedSpec == Init /\ [][EscapedNext]_vars

\* overlapping requests: express runs a handler up to its next await and then
\* serves whatever else is ready, so a request may arrive while another is
\* between two of its awaits; it takes the first slot that holds no request
\* in flight
Accept(s) ==
    /\ \A t \in Slots : t < s => ~Finished(req[t])
    /\ \E op \in Ops, id \in Ids \cup {NaNId}, file \in FileNames \cup {NoFile} :
          Arrive(s, op, id, file, NoToken)

ConcNext ==
    \/ Tick
    \/ \E s \in Slots : Accept(s)
    \/ \E s \in Slots : Multer(s)
    \/ \E s \in Slots : CheckNaN(s)
    \/ \E s \in Slots : Lookup(s)
    \/ \E s \in Slots : Upload(s)
    \/ \E s \in Slots : Unlink(s)
    \/ \E s \in Slots : Write(s)

ConcSpec == Init /\ [][ConcNext]_vars

\* ------------------------------------------------- two runs side by side
\* A first run of requests, one at a time and without outages of the record
\* store or the storage, is kept in `twin`; the server is then booted again
\* and served the same requests at the same clock readings, either by the
\* other entry point (mode "backend") or with a bearer token on every
\* request (mode "token")
Quiet == \A s \in Slots : Finished(req[s])

Recorded == Len(twin.log) = issued

WithoutOutage == req'[1].err \notin {"db", "upload", "unlink"}

StatusOf(r) == IF r.pc = "hung" THEN 0 ELSE r.status

TwinTick ==
    /\ Quiet /\ Recorded
    /\ twin.phase = 2 => /\ issued < Len(twin.log)
                          /\ now < twin.log[issued + 1].t
    /\ Tick

FirstRun ==
    /\ twin.phase = 1 /\ Recorded /\ issued < MaxTwin
    /\ Start

Record ==
    /\ twin.phase = 1 /\ Quiet /\ ~Recorded
    /\ twin' = [twin EXCEPT !.log =
                   Append(@, [op |-> req[1].op, id |-> req[1].id,
                              file |-> req[1].file, t |-> now,
                              status |-> StatusOf(req[1])])]
    /\ UNCHANGED <<ep, ent, db, store, now, nextId, issued, req, writer, adm>>

Reboot(mode, token) ==
    /\ twin.phase = 1 /\ Quiet /\ Recorded /\ issued >= 1
    /\ mode = "backend" => /\ ep = "local" /\ ent \in StdEntities
                           /\ token = NoToken
    /\ twin' = [phase |-> 2, mode |-> mode, token |-> token, log |-> twin.log,
                db |-> db, store |-> store]
    /\ ep' = IF mode = "backend" THEN "remote" ELSE ep
    /\ db' = SeedDb(ent)
    /\ store' = EmptyStore
    /\ now' = 1
    /\ nextId' = IF ent \in SeededEntities THEN 2 ELSE 1
    /\ issued' = 0
    /\ req' = [s \in Slots |-> IdleReq]
    /\ writer' = [i \in Ids |-> 0]
    /\ UNCHANGED <<ent, adm>>

Replay ==
    /\ twin.phase = 2 /\ Quiet /\ issued < Len(twin.log)
    /\ LET e == twin.log[issued + 1] IN
       /\ now = e.t
       /\ Arrive(1, e.op, e.id, e.file, twin.token)

TwinNext ==
    \/ TwinTick
    \/ FirstRun
    \/ Record
    \/ \E mode \in {"backend", "token"}, token \in Tokens : Reboot(mode, token)
    \/ Replay
    \/ Multer(1) /\ WithoutOutage
    \/ CheckNaN(1) /\ WithoutOutage
    \/ Lookup(1) /\ WithoutOutage
    \/ Upload(1) /\ WithoutOutage
    \/ Unlink(1) /\ WithoutOutage
    \/ Write(1) /\ WithoutOutage

TwinSpec == Init /\ [][TwinNext]_vars

\* ------------------------------------------- admin and announcement routes
\* index.js registers /admin/login and /api/admin/secure-data; part_001
\* registers the /api/announcements routes
RoutesOf(p) ==
    IF p = "local" THEN {"secure", "login"}
    ELSE {"annPost", "annPut", "annDelete"}

FirstStep(route) ==
    CASE route = "secure" -> "auth"
      [] route = "login" -> "find"
      [] route \in {"annPost", "annPut"} -> "validate"
      [] OTHER -> "write"

AdmFinished == adm.pc \in {"idle", "done"}

AdmRespond(a, status, body) == [a EXCEPT !.pc = "done", !.status = status, !.body = body]

AdmOthers == <<ep, ent, db, store, now, nextId, issued, req, writer, twin>>

\* a request reaches one of the routes; express parses its header and body
AdmArrive ==
    /\ AdmFinished
    /\ adm.n < MaxReq
    /\ \E route \in RoutesOf(ep), token \in Tokens, u \in Usernames,
          p \in Passwords, id \in Ids \cup {NaNId}, title \in BOOLEAN,
          description \in BOOLEAN, date \in DateInputs :
          /\ route = "secure" \/ token = NoToken
          /\ route = "login" \/ (u = "ghost" /\ p = "wrong")
          /\ route \in {"annPut", "annDelete"} \/ id = NaNId
          /\ route \in {"annPost", "annPut"}
                \/ (~title /\ ~description /\ date = "missing")
          /\ route = "annPost" => adm.annNext <= MaxId
          /\ adm' = [adm EXCEPT
                        !.pc = FirstStep(route), !.route = route, !.n = @ + 1,
                        !.token = token, !.username = u, !.password = p,
                        !.id = id,
                        !.fields = [title |-> title, description |-> description,
                                    date |-> date],
                        !.status = 0, !.body = NoBody, !.user = NoToken,
                        !.invoked = FALSE, !.issuedToken = NoToken,
                        !.called = FALSE, !.parsedDate = "null",
                        !.annPre = adm.ann, !.at = 0]
    /\ UNCHANGED AdmOthers

\* the authenticateToken middleware in front of the secured handler
AuthBody(status) == IF status = 401 THEN "Access denied" ELSE "Invalid token"

Authenticate ==
    /\ adm.pc = "auth"
    /\ LET a == authenticateToken(adm.token, now) IN
       adm' = IF a.next
              THEN [adm EXCEPT !.pc = "handler", !.user = a.user, !.at = now]
              ELSE AdmRespond([adm EXCEPT !.at = now], a.status, AuthBody(a.status))
    /\ UNCHANGED AdmOthers

\* res.json({ message: "This is secured data for admin" })
SecuredHandler ==
    /\ adm.pc = "handler"
    /\ adm' = AdmRespond([adm EXCEPT !.invoked = TRUE], 200, "secured data")
    /\ UNCHANGED AdmOthers

\* prisma.admin.findUnique({ where: { username } })
AdminFound(a) == \E row \in a.admins : row.username = a.username

UnknownUserBodyDistinct == "Unknown username"
UnknownUserBody == "Invalid username or password"

LoginFind ==
    /\ adm.pc = "find"
    /\ \E fault \in BOOLEAN :
          adm' = IF fault
                 THEN AdmRespond(adm, 500, "An error occurred during login")
                 ELSE IF ~AdminFound(adm)
                      THEN AdmRespond(adm, 401, UnknownUserBody)
                 ELSE [adm EXCEPT !.pc = "compare"]
    /\ UNCHANGED AdmOthers

\* bcrypt.compare(password, admin.password), then jwt.sign with expiresIn 1h
PasswordMatches(a) ==
    \E row \in a.admins : row.username = a.username /\ row.password = a.password

LoginCompare ==
    /\ adm.pc = "compare"
    /\ adm' = IF ~PasswordMatches(adm)
              THEN AdmRespond(adm, 401, "Invalid username or password")
              ELSE AdmRespond([adm EXCEPT !.issuedToken =
                                   [sig |-> "good", exp |-> now + TokenLife]],
                              200, "token")
    /\ UNCHANGED AdmOthers

\* the field checks at the top of the announcement POST and PUT handlers
Missing(f) == ~f.title \/ ~f.description \/ f.date = "missing"

AnnRejects(route, f) ==
    IF route = "annPost" THEN Missing(f) \/ f.date # "valid" ELSE Missing(f)

AnnValidate ==
    /\ adm.pc = "validate"
    /\ adm' = IF AnnRejects(adm.route, adm.fields)
              THEN AdmRespond(adm, 400, "Invalid or missing fields")
              ELSE [adm EXCEPT !.pc = "write",
                               !.parsedDate = IF adm.fields.date = "valid"
                                              THEN "valid" ELSE "null"]
    /\ UNCHANGED AdmOthers

\* prisma.announcement.create / update / delete inside try: the call throws
\* when the database is down, when the row is missing (P2025), when the id is
\* NaN and when publishedDate, a required DateTime column, is null
AnnThrows(a, fault) ==
    \/ fault
    \/ a.route = "annPut" /\ a.parsedDate = "null"
    \/ a.route \in {"annPut", "annDelete"}
          /\ (a.id = NaNId \/ a.ann[a.id] = NoAnn)

AnnWrite ==
    /\ adm.pc = "write"
    /\ \E fault \in BOOLEAN :
          LET a == [adm EXCEPT !.called = TRUE] IN
          adm' = IF AnnThrows(a, fault)
                 THEN AdmRespond(a, 500, "Error")
                 ELSE CASE a.route = "annPost" ->
                             AdmRespond([a EXCEPT
                                 !.ann[a.annNext] = [date |-> a.parsedDate, by |-> a.n],
                                 !.annNext = @ + 1], 200, "announcement")
                        [] a.route = "annPut" ->
                             AdmRespond([a EXCEPT
                                 !.ann[a.id] = [date |-> a.parsedDate, by |-> a.n]],
                                 200, "announcement")
                        [] OTHER ->
                             AdmRespond([a EXCEPT !.ann[a.id] = NoAnn], 204, NoBody)
    /\ UNCHANGED AdmOthers

AdminInit ==
    /\ Booted
    /\ ent = "news"
    /\ adm \in {[IdleAdm EXCEPT !.admins = t] : t \in AdminTables}
    /\ twin = NoTwin

AdminNext ==
    \/ Tick
    \/ AdmArrive
    \/ Authenticate
    \/ SecuredHandler
    \/ LoginFind
    \/ LoginCompare
    \/ AnnValidate
    \/ AnnWrite

AdminSpec == AdminInit /\ [][AdminNext]_vars

TypeOK ==
    /\ ep \in EntryPoints /\ ent \in Entities
    /\ now \in 1..MaxTime /\ nextId \in 1..(MaxId + 1) /\ issued \in 0..MaxReq
    /\ \A i \in Ids : db[i].kind \in {"norow", "null", "seed", "uploads", "public"}
    /\ \A k \in Keys : store[k] \in 0..MaxReq
    /\ \A i \in Ids : writer[i] \in 0..MaxReq
    /\ \A s \in Slots : req[s].pc \in {"idle", "done", "hung"} \cup
                                       {StageOrder[i] : i \in 1..Len(StageOrder)}


\* ------------------------------------------------------------- properties
Quiescent == \A s \in Slots : Finished(req[s])

Range(f) == {f[i] : i \in DOMAIN f}

Before(log, a, b) ==
    \A j \in 1..Len(log) : log[j] = b => \E i \in 1..(j - 1) : log[i] = a

UpdateWithUpload(r) == r.op = "update" /\ r.file # NoFile

\* the request met no failure of the record store or of the storage backend
NoOutage(r) == r.err \notin {"db", "upload", "unlink"}

\* C1: once every request has completed, each row's reference is null or
\* designates a blob that exists in the storage backend (seeded references,
\* which are no uploads of the server, are left aside)
C1_NoDanglingRef ==
    Quiescent =>
        \A i \in Ids : db[i] \notin {NoRow, Null, SeedRef} => Live(db[i])

\* C2: in an update with an upload the row is written before the previous
\* blob is deleted
C2_WriteBeforeDelete ==
    \A s \in Slots :
        UpdateWithUpload(req[s]) => Before(req[s].log, "wrote", "deleted")

\* C3: an update with an upload that returns successfully leaves the blob of
\* the new reference live and the blob of the prior reference, if distinct, gone
C3_UpdateReplacesBlob ==
    \A s \in Slots :
        LET r == req[s] IN
        (r.pc = "done" /\ UpdateWithUpload(r) /\ r.status = 200) =>
            /\ Live(db[r.id])
            /\ (Truthy(r.preDb[r.id]) /\ r.preDb[r.id] # db[r.id])
                   => ~Live(r.preDb[r.id])

\* C4: an update without an upload leaves every reference and every blob as
\* they were when the request arrived
C4_UpdateWithoutUploadKeepsRef ==
    \A s \in Slots :
        LET r == req[s] IN
        (r.pc \in {"done", "hung"} /\ r.op = "update" /\ r.file = NoFile) =>
            db = r.preDb /\ store = r.preStore

C4_Witness ==
    \E s \in Slots :
        LET r == req[s] IN
        /\ r.pc = "done" /\ r.op = "update" /\ r.file = NoFile /\ r.status = 200
        /\ Live(r.preDb[r.id])

\* C5: a create without an upload, met by no outage, creates a row whose
\* reference is null
C5_CreateWithoutUploadIsNull ==
    \A s \in Slots :
        LET r == req[s] IN
        (r.pc \in {"done", "hung"} /\ r.op = "create" /\ r.file = NoFile
            /\ NoOutage(r)) =>
            /\ r.status \in {200, 201}
            /\ r.newId \in Ids /\ db[r.newId] = Null

\* C6: a create with an upload, met by no outage, creates a row whose
\* reference is non-null and designates a live blob holding the upload
C6_CreateWithUploadIsLive ==
    \A s \in Slots :
        LET r == req[s] IN
        (r.pc \in {"done", "hung"} /\ r.op = "create" /\ r.file # NoFile
            /\ NoOutage(r)) =>
            /\ r.newId \in Ids
            /\ db[r.newId] # Null /\ Live(db[r.newId])
            /\ store[BlobKeyOf(db[r.newId])] = r.n

C9_RejectedUploadCreatesNothing ==
    \A s \in Slots :
        LET r == req[s] IN
        (Finished(r) /\ r.op = "create" /\ r.err = "upload") =>
            db = r.preDb /\ r.status = 500

C9_Witness ==
    \E s \in Slots :
        LET r == req[s] IN
        /\ r.pc = "done" /\ r.op = "create" /\ r.err = "upload"
        /\ ep = "remote"

\* C10: in an update with an upload the previous blob is deleted only after
\* the new blob was stored; when storing fails the request aborts with every
\* blob and every row as they were
C10_UploadBeforeDelete ==
    \A s \in Slots :
        LET r == req[s] IN
        UpdateWithUpload(r) =>
            /\ Before(r.log, "stored", "deleted")
            /\ (Finished(r) /\ r.err = "upload") =>
                   db = r.preDb /\ store = r.preStore /\ r.status = 500

C10_Witness ==
    \E s \in Slots :
        LET r == req[s] IN
        /\ r.pc = "done" /\ UpdateWithUpload(r) /\ r.err = "upload"
        /\ r.id \in Ids /\ Live(r.preDb[r.id]) /\ Live(db[r.id])


\* the references a delete may be handed: every reference either entry point
\* can produce, the seeded one, and /uploads/undefined
Refs ==
    {getLocalFileUrl(k) : k \in Keys \cup {UndefKey}}
        \cup {getPublicUrl(k) : k \in Keys} \cup {SeedRef}

\* the blob of `ref` was not there when the request arrived
AbsentAtArrival(r, ref) ==
    ~(BlobKeyOf(ref) \in Keys /\ r.preStore[BlobKeyOf(ref)] # Absent)

\* C11: deleting a blob by reference is idempotent in both backends: from
\* every reachable storage state, a delete that did not raise can be repeated
\* on the same reference, and the second call does not raise and leaves the
\* storage as the first call left it; and a request whose delete meets an
\* absent blob while the backend answers does not fail at the delete
C11_DeleteIdempotent ==
    /\ \A ref \in Refs :
          IF ep = "local"
          THEN \A c1 \in UnlinkCodes(store, LocalFullPath(ref)) :
                  LET once == deleteLocalFile(store, ref, c1) IN
                  ~once.threw =>
                     \A c2 \in UnlinkCodes(once.store, LocalFullPath(ref)) :
                        LET twice == deleteLocalFile(once.store, ref, c2) IN
                        ~twice.threw /\ twice.store = once.store
          ELSE LET once == deleteFromSupabase(store, ref, FALSE)
                   twice == deleteFromSupabase(once.store, ref, FALSE)
               IN  ~once.threw /\ ~twice.threw /\ twice.store = once.store
    /\ \A s \in Slots :
          LET r == req[s] IN
          (/\ Finished(r) /\ r.op \in {"update", "delete"}
           /\ Deleter(ep, ent) \in {"unlink", "supabase"}
           /\ Truthy(r.existing) /\ r.existing # NoRow
           /\ AbsentAtArrival(r, r.existing) /\ ~r.delFailed)
              => r.err # "unlink"

\* a delete request completed although the blob of the row's reference had
\* already been removed by an earlier delete of the same reference
C11_Witness ==
    \E s \in Slots :
        LET r == req[s] IN
        /\ r.pc = "done" /\ r.op = "delete" /\ r.status \in {200, 204}
        /\ r.existing \in Refs \ {SeedRef}
        /\ BlobKeyOf(r.existing) \in Keys
        /\ AbsentAtArrival(r, r.existing)


\* C12: after a successful delete of a row whose reference was non-null, the
\* blob that reference designated is not in the storage backend
C12_DeletedRowLeavesNoBlob ==
    \A s \in Slots :
        LET r == req[s] IN
        (/\ r.pc = "done" /\ r.op = "delete" /\ r.status \in {200, 204}
         /\ r.id \in Ids /\ r.preDb[r.id] # NoRow /\ Truthy(r.preDb[r.id]))
            => ~Live(r.preDb[r.id])

\* a successful delete of a row whose reference designated a stored blob
C12_Witness ==
    \E s \in Slots :
        LET r == req[s] IN
        /\ r.pc = "done" /\ r.op = "delete" /\ r.status \in {200, 204}
        /\ r.id \in Ids /\ r.preDb[r.id] # NoRow
        /\ BlobKeyOf(r.preDb[r.id]) \in Keys
        /\ r.preStore[BlobKeyOf(r.preDb[r.id])] # Absent
        /\ db[r.id] = NoRow


\* C13: no two distinct rows hold the same non-null reference
C13_NoSharedRef ==
    \A i, j \in Ids :
        (i # j /\ db[i] # NoRow /\ Truthy(db[i])) => db[i] # db[j]


\* C14: an update or delete that addresses an id with no row is answered 404
\* and writes nothing: the rows are as they were when the request arrived
\* (requests that met an outage of the record store or storage aside)
C14_MissingIdIsNotFound ==
    \A s \in Slots :
        LET r == req[s] IN
        (/\ Finished(r) /\ r.op \in {"update", "delete"}
         /\ r.id \in Ids /\ r.preDb[r.id] = NoRow /\ NoOutage(r))
            => /\ r.pc = "done" /\ r.status = 404
               /\ db = r.preDb


\* C15: an update with an upload removes the blob of the existing reference
\* only if that reference is non-null and differs from the new reference, so
\* the blob of its own new reference is never the one it removes
C15_NeverDeletesOwnBlob ==
    \A s \in Slots :
        LET r == req[s] IN
        (UpdateWithUpload(r) /\ "deleted" \in Range(r.log))
            => /\ Truthy(r.existing) /\ r.existing # NoRow
               /\ r.existing # r.newImage


\* C16: once a row's reference is non-null, no step makes it null while the
\* row exists
C16_NeverCleared ==
    [][\A i \in Ids :
          (db[i] # NoRow /\ Truthy(db[i]) /\ db'[i] # NoRow) => Truthy(db'[i])]_vars


\* requests a and b, held in the two slots, were in flight at the same time:
\* the later one arrived while the other had not finished
Overlapped(a, b) == IF a.n > b.n THEN a.conc ELSE b.conc

\* C17: when an update without an upload overlaps an update with an upload of
\* the same row and both have answered 200, the row's reference is the one
\* the upload request wrote, never the one the other request read earlier
C17_NoUploadUpdateKeepsConcurrentRef ==
    \A s, t \in Slots :
        LET a == req[s]
            b == req[t]
        IN  (/\ s # t /\ Overlapped(a, b)
             /\ a.pc = "done" /\ a.op = "update" /\ a.file = NoFile
             /\ a.status = 200
             /\ b.pc = "done" /\ UpdateWithUpload(b) /\ b.status = 200
             /\ a.id = b.id)
                => db[b.id] = b.newImage


\* C19: when two updates with an upload of the same row overlap and both
\* have answered 200, the row's reference is the new reference of the one
\* whose row write came last, and that reference designates a live blob
C19_LastWriterWinsAndLive ==
    \A s, t \in Slots :
        LET a == req[s]
            b == req[t]
        IN  (/\ s # t /\ Overlapped(a, b) /\ a.id = b.id
             /\ a.pc = "done" /\ UpdateWithUpload(a) /\ a.status = 200
             /\ b.pc = "done" /\ UpdateWithUpload(b) /\ b.status = 200
             /\ writer[a.id] = a.n)
                => db[a.id] = a.newImage /\ Live(db[a.id])


\* the row a completed request addressed: the one it created, or the one
\* its :id names
RowOf(r) == IF r.op = "create" THEN r.newId ELSE r.id

StoredFor(r) ==
    /\ r.pc = "done" /\ r.op \in {"create", "update"} /\ r.file # NoFile
    /\ r.status \in {200, 201}
    /\ RowOf(r) \in Ids /\ writer[RowOf(r)] = r.n

\* C18: two overlapping requests on different rows are independent, so the
\* outcome for each row is the one of the order in which its request runs
\* last: when both have stored an upload and written their rows, the blob a
\* row's reference designates holds the upload of that row's own request,
\* not the other request's
C18_DifferentRowsIndependent ==
    \A s, t \in Slots :
        LET a == req[s]
            b == req[t]
        IN  (/\ s # t /\ Overlapped(a, b)
             /\ StoredFor(a) /\ StoredFor(b) /\ RowOf(a) # RowOf(b)
             /\ Live(db[RowOf(a)]))
                => store[BlobKeyOf(db[RowOf(a)])] = a.n


\* the update handlers of part_001 that neither look the row up nor touch the
\* bucket
RemoteLite == {"kalender", "headmaster", "sejarah", "struktur", "staff"}

DeleteIssued(r) ==
    r.pc = "unlink" \/ r.delFailed \/ "deleted" \in Range(r.log)

\* C20: in the remote-object-store entry point an update of kalender,
\* headmaster-message, sejarah, strukturOrganisasi or staffAndTeacher never
\* issues a storage delete: with an upload it overwrites the row's reference
\* and every blob that was stored stays; an update of news, hero,
\* extracurricular, alumni, galeri or sarana issues the delete of the prior
\* blob only when a file came and only after its upload succeeded
C20_RemoteUpdateDeletes ==
    ep = "remote" =>
        \A s \in Slots :
            LET r == req[s] IN
            r.op = "update" =>
                /\ ent \in RemoteLite =>
                      /\ ~DeleteIssued(r)
                      /\ \A k \in Keys :
                            r.preStore[k] # Absent => store[k] = r.preStore[k]
                      /\ (r.pc = "done" /\ r.status = 200 /\ r.file # NoFile)
                            => db[r.id] = r.newImage
                /\ ent \in StdEntities =>
                      (DeleteIssued(r) =>
                          /\ r.file # NoFile
                          /\ "stored" \in Range(r.log)
                          /\ Truthy(r.newImage))

\* part_001's kalender-style update with an upload answered 200: the row
\* holds the new reference and no delete was issued
C20_Witness ==
    \E s \in Slots :
        LET r == req[s] IN
        /\ ep = "remote" /\ ent \in RemoteLite
        /\ r.pc = "done" /\ UpdateWithUpload(r) /\ r.status = 200
        /\ db[r.id] = r.newImage /\ r.preDb[r.id] # r.newImage


\* a reference up to the renaming between the two backends: /uploads/<key>
\* and the public URL of <key> name the same blob
Renamed(ref) ==
    IF ref.kind \in {"uploads", "public"}
    THEN [kind |-> "blob", key |-> ref.key] ELSE ref

LiveKeys(st) == {k \in Keys : st[k] # Absent}

\* the second run has answered its k-th request
Replayed(k) == twin.phase = 2 /\ Quiet /\ issued = k /\ k >= 1

SameStatus == StatusOf(req[1]) = twin.log[issued].status

\* C21: for news, hero, extracurricular, alumni, galeri and sarana, the two
\* entry points served the same requests at the same clock readings, with
\* no outage in either, give the same status for each request, and after
\* the last request the same rows (up to the renaming of references) and
\* the same set of live blobs
C21_BackendsInterchangeable ==
    \A k \in 1..MaxReq :
        (Replayed(k) /\ twin.mode = "backend") =>
            /\ SameStatus
            /\ k = Len(twin.log) =>
                  /\ \A i \in Ids : Renamed(db[i]) = Renamed(twin.db[i])
                  /\ LiveKeys(store) = LiveKeys(twin.store)

\* the reference handed back when a blob is stored under key k
StoredRef(k) == IF ep = "local" THEN getLocalFileUrl(k) ELSE getPublicUrl(k)

\* the store after the entry point's delete helper is handed `ref` and the
\* backend reports no failure
AfterDelete(st, ref) ==
    IF ep = "local" THEN deleteLocalFile(st, ref, "OK").store
    ELSE deleteFromSupabase(st, ref, FALSE).store

\* C22: the reference returned when a blob was stored, handed back to the
\* backend's delete, removes exactly that blob: the blob is gone and every
\* other blob is untouched
C22_RefRoundTripsIntoDelete ==
    \A k \in Keys :
        store[k] # Absent =>
            AfterDelete(store, StoredRef(k)) = [store EXCEPT ![k] = Absent]

\* the token of the request verifies against SECRET_KEY and had not expired
\* when the middleware read the clock
ValidAt(token, t) == token # NoToken /\ token.sig = "good" /\ t < token.exp

SecureAnswered == adm.route = "secure" /\ adm.pc = "done"

\* C23: the handler of GET /api/admin/secure-data runs, and req.user is set,
\* only for a token that verifies and is not expired; a request without a
\* token is answered 401, one with an invalid or expired token 403, and in
\* neither case is the handler invoked or req.user set
C23_SecureDataGuarded ==
    adm.route = "secure" =>
        /\ (adm.invoked \/ adm.user # NoToken) => ValidAt(adm.token, adm.at)
        /\ (SecureAnswered /\ adm.token = NoToken) =>
               adm.status = 401 /\ ~adm.invoked /\ adm.user = NoToken
        /\ (SecureAnswered /\ adm.token # NoToken /\ ~ValidAt(adm.token, adm.at)) =>
               adm.status = 403 /\ ~adm.invoked /\ adm.user = NoToken

\* a token that was valid once has expired and is refused
C23_Witness ==
    /\ SecureAnswered /\ adm.status = 403
    /\ adm.token.sig = "good" /\ adm.at >= adm.token.exp
    /\ adm.token.exp > 1

LoginAnswered == adm.route = "login" /\ adm.pc = "done"

\* the response of a login that found no admin / found one with another hash
UnknownUsernameResponse == [status |-> 401, body |-> UnknownUserBody]
WrongPasswordResponse == [status |-> 401, body |-> "Invalid username or password"]

InvalidAnnouncement(f) == Missing(f) \/ f.date # "valid"

\* C25: a POST or PUT of an announcement with a missing title, description or
\* publishedDate, or with a publishedDate that does not parse, is answered
\* 400 before the record store is called, and the stored announcements are
\* unchanged
C25_InvalidAnnouncementRejected ==
    (/\ adm.route \in {"annPost", "annPut"} /\ adm.pc = "done"
     /\ InvalidAnnouncement(adm.fields))
        => adm.status = 400 /\ ~adm.called /\ adm.ann = adm.annPre

\* C26: no request ends up never answered: whatever its record-store and
\* storage calls did, the handler sends a response
C26_EveryRequestAnswered ==
    \A s \in Slots : req[s].pc # "hung"

\* the rows whose reference is served from the blob under key k
Referrers(k) == {i \in Ids : Truthy(db[i]) /\ db[i] # NoRow /\ ServedKey(db[i]) = k}

\* C27: once every request has completed, every blob in the storage backend
\* is referenced by exactly one existing row
C27_NoBlobLeaked ==
    Quiescent =>
        \A k \in Keys : store[k] # Absent => Cardinality(Referrers(k)) = 1

\* the references the entry point's own storage path returns for a stored blob
OwnRefs == {StoredRef(k) : k \in Keys}

\* C28: every non-null reference a create or update handler wrote into a row
\* is one returned by the storage path of the same entry point
C28_WrittenRefsComeFromStore ==
    \A i \in Ids :
        (db[i] # NoRow /\ Truthy(db[i]) /\ db[i] # SeedRef) => db[i] \in OwnRefs

ErrorStatus == {400, 404, 500}

\* C30: a request answered 400, 404 or 500 leaves the rows and the blobs as
\* they were when it arrived
C30_ErrorLeavesStoresUnchanged ==
    \A s \in Slots :
        LET r == req[s] IN
        (r.pc = "done" /\ r.status \in ErrorStatus) =>
            db = r.preDb /\ store = r.preStore

\* C29: no content-mutating endpoint checks a token: a run of requests served
\* without a token and the same run served with any token (well signed, badly
\* signed, expired) get the same answers and end with the same rows and the
\* same blobs, and no such request is answered 401 or 403
C29_MutationsIgnoreToken ==
    /\ \A s \in Slots : req[s].status \notin {401, 403}
    /\ \A k \in 1..MaxReq :
           (Replayed(k) /\ twin.mode = "token") =>
               /\ SameStatus
               /\ k = Len(twin.log) => db = twin.db /\ store = twin.store

\* a run that stored a blob and wrote a row without a token was served again
\* with a well-signed token
C29_Witness ==
    /\ Replayed(Len(twin.log)) /\ twin.mode = "token"
    /\ twin.token.sig = "good"
    /\ req[1].status = 200 /\ req[1].token = twin.token
    /\ \E i \in Ids : Truthy(db[i]) /\ db[i] # NoRow /\ Live(db[i]) /\ writer[i] # 0

====
